---- MODULE Spec2Model ----
(***************************************************************************)
(* Model of src/app.py: the document ingestion and task-dispatch pipeline  *)
(* of the Smart Document Processor (DocumentProcessor and the part of      *)
(* main() that drives it).                                                 *)
(*                                                                         *)
(* Python strings are TLA+ strings (Len, SubSeq and \o work on them).      *)
(* An Optional value is a sequence of length at most one: None is <<>>     *)
(* and a value v is <<v>>.                                                 *)
(*                                                                         *)
(* Two specifications:                                                     *)
(*   Spec     one run of main(): upload, extraction loop, aggregation,     *)
(*            task selection, button click.                                *)
(*   SpecApi  DocumentProcessor.process_document called directly with any  *)
(*            content, task string and question.                           *)
(***************************************************************************)
EXTENDS Integers, Sequences, FiniteSets, TLC

VARIABLES
    uploaded_files,   \* main: the list the file uploader returned
    processed_files,  \* main: the dicts process_file returned, in loop order
    combined_text,    \* main: the corpus (None until line 449 runs); SpecApi: the content argument
    task,             \* main: the radio label (None until chosen); SpecApi: the task argument
    question,         \* the question handed to process_document (None when there is none)
    response,         \* main: response; SpecApi: the value process_document returned
    requests,         \* every client.chat.completions.create call made, in order
    upstream,         \* how the LLM client behaved on the call (None when it was not called)
    raised,           \* TRUE when an exception left process_document
    pc                \* position in the script

vars == <<uploaded_files, processed_files, combined_text, task, question,
          response, requests, upstream, raised, pc>>

(***************************************************************************)
(* Bounds                                                                  *)
(***************************************************************************)
MaxFiles == 2

None == <<>>
Some(v) == <<v>>

(***************************************************************************)
(* Media types: the strings extract_text compares file.type with, and one  *)
(* type the uploader accepts (.html) that extract_text does not know.      *)
(***************************************************************************)
PDF == "application/pdf"
DOCX == "application/vnd.openxmlformats-officedocument.wordprocessingml.document"
PPTX == "application/vnd.openxmlformats-officedocument.presentationml.presentation"
XLSX == "application/vnd.openxmlformats-officedocument.spreadsheetml.sheet"
TextTypes == {"text/plain", "application/octet-stream"}
HTML == "text/html"

MediaTypes == {PDF, DOCX, PPTX, XLSX, HTML} \cup TextTypes

(***************************************************************************)
(* What the format's parser (pdfplumber, python-docx, python-pptx, pandas, *)
(* bytes.decode) does with the file's bytes: it returns a text or raises   *)
(* an exception whose str() is text.                                       *)
(***************************************************************************)
Texts == {"", "\n\n", "hello world"}
ParseErrors == {"bad file"}

ParseOutcomes ==
    [ok : {TRUE}, text : Texts] \cup [ok : {FALSE}, text : ParseErrors]

\* the bytes of a file of the unknown type are never parsed: one such file
Files ==
    {f \in [type : MediaTypes, parse : ParseOutcomes] :
        f.type = HTML => f.parse = [ok |-> TRUE, text |-> "hello world"]}

RECURSIVE SeqsUpTo(_, _)
SeqsUpTo(S, n) ==
    IF n = 0 THEN {<<>>}
    ELSE LET shorter == SeqsUpTo(S, n - 1)
         IN shorter \cup {Append(s, x) : s \in {t \in shorter : Len(t) = n - 1}, x \in S}

(***************************************************************************)
(* str helpers                                                             *)
(***************************************************************************)
Whitespace == {" ", "\t", "\n", "\r", "\f"}

RECURSIVE lstrip(_)
lstrip(s) ==
    IF Len(s) > 0 /\ SubSeq(s, 1, 1) \in Whitespace
    THEN lstrip(SubSeq(s, 2, Len(s)))
    ELSE s

RECURSIVE rstrip(_)
rstrip(s) ==
    IF Len(s) > 0 /\ SubSeq(s, Len(s), Len(s)) \in Whitespace
    THEN rstrip(SubSeq(s, 1, Len(s) - 1))
    ELSE s

strip(s) == rstrip(lstrip(s))

\* sep.join(parts) with a separator after every part, the last included
RECURSIVE JoinTrailing(_, _)
JoinTrailing(sep, parts) ==
    IF parts = <<>> THEN ""
    ELSE parts[1] \o sep \o JoinTrailing(sep, Tail(parts))

\* sep.join(parts)
RECURSIVE Join(_, _)
Join(sep, parts) ==
    IF parts = <<>> THEN ""
    ELSE IF Len(parts) = 1 THEN parts[1]
    ELSE parts[1] \o sep \o Join(sep, Tail(parts))

\* f"{v}" of an Optional[str]
Format(v) == IF v = None THEN "None" ELSE v[1]

(***************************************************************************)
(* DocumentProcessor.extract_text                                          *)
(***************************************************************************)
RecognizedTypes == {PDF, DOCX, PPTX, XLSX} \cup TextTypes

UnsupportedMarker == "Unsupported file format"

\* the call of the format's parser inside the try block: its text when it
\* returns, otherwise the exception is caught and its message formatted
Parsed(file) ==
    IF file.parse.ok
    THEN file.parse.text
    ELSE "Error processing file: " \o file.parse.text

\* extract_text with an except branch that returns an empty text
extract_text_swallow(file) ==
    IF file.type \in RecognizedTypes
    THEN IF file.parse.ok THEN file.parse.text ELSE ""
    ELSE UnsupportedMarker

\* extract_text whose else branch decodes the bytes like the text branch
extract_text_decode_default(file) ==
    Parsed(file)

extract_text(file) ==
    IF file.type = PDF THEN Parsed(file)
    ELSE IF file.type = DOCX THEN Parsed(file)
    ELSE IF file.type = PPTX THEN Parsed(file)
    ELSE IF file.type = XLSX THEN Parsed(file)
    ELSE IF file.type \in TextTypes THEN Parsed(file)
    ELSE UnsupportedMarker

(***************************************************************************)
(* DocumentProcessor.process_file (filename, size and processing_time are  *)
(* display metadata of the raw upload and the clock; they are not kept)    *)
(***************************************************************************)
process_file(file) ==
    LET text == extract_text(file)
    IN [text_length |-> Len(text), content |-> text]

(***************************************************************************)
(* DocumentProcessor.process_document                                      *)
(***************************************************************************)
ModelName == "llama-3.1-70b-versatile"

NoContent == "No content to process"

\* how client.chat.completions.create(...).choices[0].message.content ends:
\* a reply, an exception of the client (network or API error), or a
\* response whose choices list is empty (IndexError)
LLMBehaviours ==
    { [kind |-> "reply", text |-> "LLM reply"],
      [kind |-> "raise", text |-> "Connection error."],
      [kind |-> "nochoices", text |-> "list index out of range"] }

\* the prompt table with the question left out of the ask_question entry
prompt_content_noquestion(content, t, q) ==
    CASE t = "summarize" -> "Summarize the following content concisely:\n\n" \o content
      [] t = "ask_question" -> "Answer based on the content provided:\n\nContent:\n" \o content
      [] t = "combine" -> "Combine and sort the following content without losing details:\n\n" \o content
      [] OTHER -> "Invalid task"

\* the dict of f-strings and its .get(task, "Invalid task")
prompt_content(content, t, q) ==
    CASE t = "summarize" ->
            "Summarize the following content concisely:\n\n" \o content
      [] t = "ask_question" ->
            "Answer based on the content provided:\n\nContent:\n" \o content
                \o "\n\nQuestion: " \o Format(q)
      [] t = "combine" ->
            "Combine and sort the following content without losing details:\n\n" \o content
      [] OTHER -> "Invalid task"

Request(prompt) ==
    [messages |-> <<[role |-> "user", content |-> prompt]>>, model |-> ModelName]

\* the try block: exc is the message of the exception that ended it (None
\* when it returned), value what it returned, sent the client calls made
CallClient(content, t, q, llm) ==
    LET req == Request(prompt_content(content, t, q))
    IN IF llm.kind = "reply"
       THEN [exc |-> None, value |-> Some(llm.text), sent |-> <<req>>]
       ELSE [exc |-> Some(llm.text), value |-> None, sent |-> <<req>>]

\* the try block without its blank-content guard
try_block_unguarded(content, t, q, llm) ==
    CallClient(content, t, q, llm)

try_block(content, t, q, llm) ==
    IF strip(content) = ""
    THEN [exc |-> None, value |-> Some(NoContent), sent |-> <<>>]
    ELSE CallClient(content, t, q, llm)

\* process_document without its except clause
process_document_uncaught(content, t, q, llm) ==
    LET r == try_block(content, t, q, llm)
    IN [value |-> r.value, raised |-> r.exc # None, sent |-> r.sent]

process_document(content, t, q, llm) ==
    LET r == try_block(content, t, q, llm)
    IN IF r.exc # None
       THEN [value |-> Some("Error processing request: " \o r.exc[1]),
             raised |-> FALSE, sent |-> r.sent]
       ELSE [value |-> r.value, raised |-> FALSE, sent |-> r.sent]

(***************************************************************************)
(* main                                                                    *)
(***************************************************************************)
Separator == "\n\n"

Contents(processed) == [i \in 1..Len(processed) |-> processed[i].content]

Reverse(s) == [i \in 1..Len(s) |-> s[Len(s) + 1 - i]]

\* line 449 over the processed files in reverse order
CorpusReversed(processed) == Join(Separator, Reverse(Contents(processed)))

\* line 449
Corpus(processed) == Join(Separator, Contents(processed))

HintKeys == {"HEll", "main_points", "findings", "custom"}

hint_questions(key) ==
    CASE key = "HEll" -> "Recommend the key topics or subjects I should prioritize to effectively prepare for the exam?"
      [] key = "main_points" -> "What are the main points?"
      [] key = "findings" -> "What are the key findings?"
      [] key = "custom" -> "Ask your own question..."

\* what the user may leave in the text input
TypedQuestions == {"", "Q?"}

Init ==
    /\ uploaded_files = <<>>
    /\ processed_files = <<>>
    /\ combined_text = None
    /\ task = None
    /\ question = None
    /\ response = None
    /\ requests = <<>>
    /\ upstream = None
    /\ raised = FALSE
    /\ pc = "upload"

\* st.file_uploader returns the list; an empty list skips the whole block
Upload ==
    /\ pc = "upload"
    /\ \E files \in SeqsUpTo(Files, MaxFiles) :
          /\ uploaded_files' = files
          /\ pc' = IF files # <<>> THEN "extract" ELSE "done"
    /\ UNCHANGED <<processed_files, combined_text, task, question, response,
                   requests, upstream, raised>>

\* one iteration of the loop over uploaded_files
ProcessFile ==
    /\ pc = "extract"
    /\ Len(processed_files) < Len(uploaded_files)
    /\ processed_files' =
          Append(processed_files, process_file(uploaded_files[Len(processed_files) + 1]))
    /\ UNCHANGED <<uploaded_files, combined_text, task, question, response,
                   requests, upstream, raised, pc>>

\* the loop is over: combined_text is assigned
Aggregate ==
    /\ pc = "extract"
    /\ Len(processed_files) = Len(uploaded_files)
    /\ combined_text' = Some(Corpus(processed_files))
    /\ pc' = "task"
    /\ UNCHANGED <<uploaded_files, processed_files, task, question, response,
                   requests, upstream, raised>>

\* the effect of a process_document call on the script's state
Dispatch(r, llm) ==
    /\ response' = IF r.raised THEN response ELSE r.value
    /\ requests' = requests \o r.sent
    /\ upstream' = IF r.sent = <<>> THEN None ELSE Some(llm)
    /\ raised' = r.raised
    /\ pc' = "done"

SelectSummarize ==
    /\ pc = "task"
    /\ task' = Some("Summarize")
    /\ pc' = "summarize"
    /\ UNCHANGED <<uploaded_files, processed_files, combined_text, question,
                   response, requests, upstream, raised>>

ClickGenerateSummary ==
    /\ pc = "summarize"
    /\ \E llm \in LLMBehaviours :
          Dispatch(process_document(combined_text[1], "summarize", None, llm), llm)
    /\ UNCHANGED <<uploaded_files, processed_files, combined_text, task, question>>

SelectAskQuestions ==
    /\ pc = "task"
    /\ task' = Some("Ask Questions")
    /\ \E selected_hint \in HintKeys, typed \in TypedQuestions :
          question' = Some(IF selected_hint = "custom"
                           THEN typed
                           ELSE hint_questions(selected_hint))
    /\ pc' = "ask"
    /\ UNCHANGED <<uploaded_files, processed_files, combined_text, response,
                   requests, upstream, raised>>

ClickGetAnswer ==
    /\ pc = "ask"
    /\ \E llm \in LLMBehaviours :
          Dispatch(process_document(combined_text[1], "ask_question", question, llm), llm)
    /\ UNCHANGED <<uploaded_files, processed_files, combined_text, task, question>>

\* the Combine branch sent through process_document instead
SelectCombineViaLLM ==
    /\ pc = "task"
    /\ task' = Some("Combine")
    /\ \E llm \in LLMBehaviours :
          Dispatch(process_document(combined_text[1], "combine", None, llm), llm)
    /\ UNCHANGED <<uploaded_files, processed_files, combined_text, question>>

SelectCombine ==
    /\ pc = "task"
    /\ task' = Some("Combine")
    /\ response' = combined_text
    /\ pc' = "done"
    /\ UNCHANGED <<uploaded_files, processed_files, combined_text, question,
                   requests, upstream, raised>>

Next ==
    \/ Upload
    \/ ProcessFile
    \/ Aggregate
    \/ SelectSummarize
    \/ ClickGenerateSummary
    \/ SelectAskQuestions
    \/ ClickGetAnswer
    \/ SelectCombine

Spec == Init /\ [][Next]_vars

(***************************************************************************)
(* process_document called directly                                        *)
(***************************************************************************)
ApiContents == {"", " \n", "hello world", "a\n\nb", "x"}
ApiTasks == {"summarize", "ask_question", "combine", "translate"}
ApiQuestions == {None, Some(""), Some("Q?")}

InitApi ==
    /\ uploaded_files = <<>>
    /\ processed_files = <<>>
    /\ combined_text = None
    /\ task = None
    /\ question = None
    /\ response = None
    /\ requests = <<>>
    /\ upstream = None
    /\ raised = FALSE
    /\ pc = "api"

CallProcessDocument ==
    /\ pc = "api"
    /\ \E content \in ApiContents, t \in ApiTasks, q \in ApiQuestions, llm \in LLMBehaviours :
          /\ combined_text' = Some(content)
          /\ task' = Some(t)
          /\ question' = q
          /\ Dispatch(process_document(content, t, q, llm), llm)
    /\ UNCHANGED <<uploaded_files, processed_files>>

NextApi == CallProcessDocument

SpecApi == InitApi /\ [][NextApi]_vars

(***************************************************************************)
(* Vocabulary of the properties                                            *)
(***************************************************************************)
Contains(s, sub) ==
    \E i \in 1..(Len(s) - Len(sub) + 1) : SubSeq(s, i, i + Len(sub) - 1) = sub

StartsWith(s, prefix) ==
    Len(s) >= Len(prefix) /\ SubSeq(s, 1, Len(prefix)) = prefix

Blank(s) == \A i \in 1..Len(s) : SubSeq(s, i, i) \in Whitespace

HasNewline(s) == Contains(s, "\n")

Aggregated == combined_text # None

\* the documents of the batch, in upload order
Docs == Contents(processed_files)

RECURSIVE Offset(_)
\* where document i starts in a corpus with one separator between documents
Offset(i) == IF i = 1 THEN 0 ELSE Offset(i - 1) + Len(Docs[i - 1]) + Len(Separator)

Failed(file) == file.type \in RecognizedTypes /\ ~file.parse.ok

HasUnsupported ==
    \E i \in 1..Len(uploaded_files) : uploaded_files[i].type \notin RecognizedTypes

HelloFile == [type |-> "text/plain", parse |-> [ok |-> TRUE, text |-> "hello world"]]

(***************************************************************************)
(* C1: an AnswerQuestion request with an empty or missing question is      *)
(* rejected before any call to the LLM client: no request is sent.         *)
(***************************************************************************)
C1_EmptyQuestionRejected ==
    (pc = "done" /\ task = Some("Ask Questions") /\ question \in {None, Some("")})
        => /\ requests = <<>>
           /\ upstream = None

(***************************************************************************)
(* C2: with task Combine the LLM client is never called, no prompt is      *)
(* sent, and the result is the aggregated corpus character for character.  *)
(***************************************************************************)
C2_CombineIsVerbatim ==
    task = Some("Combine")
        => /\ pc = "done"
           /\ requests = <<>>
           /\ upstream = None
           /\ ~raised
           /\ response = combined_text
           /\ response = Some(Corpus(processed_files))

C2_Witness ==
    /\ pc = "done"
    /\ task = Some("Combine")
    /\ Len(uploaded_files) = 2
    /\ response = Some("hello world\n\nUnsupported file format")

(***************************************************************************)
(* C3 as stated: the corpus has one "\n\n" after every document, the last  *)
(* included; one text file "hello world" with Combine gives                *)
(* "hello world\n\n".                                                      *)
(***************************************************************************)
C3_TrailingSeparator ==
    Aggregated
        => /\ combined_text[1] = JoinTrailing(Separator, Docs)
           /\ (uploaded_files = <<HelloFile>> /\ task = Some("Combine"))
                 => response = Some("hello world\n\n")

(***************************************************************************)
(* C3 amended: the corpus has exactly one "\n\n" between consecutive       *)
(* documents and none after the last; one text file "hello world" with     *)
(* Combine gives "hello world".                                            *)
(***************************************************************************)
C3_SeparatorBetweenOnly ==
    Aggregated
        => LET corpus == combined_text[1]
               n == Len(Docs)
           IN /\ n >= 1
              /\ Len(corpus) = Offset(n) + Len(Docs[n])
              /\ \A i \in 1..(n - 1) :
                    SubSeq(corpus, Offset(i) + Len(Docs[i]) + 1, Offset(i + 1)) = "\n\n"
              /\ (uploaded_files = <<HelloFile>> /\ task = Some("Combine"))
                    => response = Some("hello world")

C3_Witness ==
    /\ pc = "done"
    /\ uploaded_files = <<HelloFile>>
    /\ task = Some("Combine")
    /\ response = Some("hello world")

(***************************************************************************)
(* C4 as stated: one text per file in upload order, and for any two        *)
(* documents with different texts the corpora of [A,B] and [B,A] differ.   *)
(***************************************************************************)
C4_OrderAlwaysVisible ==
    Aggregated
        => /\ Len(processed_files) = Len(uploaded_files)
           /\ (Len(Docs) = 2 /\ Docs[1] # Docs[2])
                 => combined_text[1] # Corpus(Reverse(processed_files))

(***************************************************************************)
(* C4 amended: the corpus is one text per file, the i-th text being the    *)
(* extraction of the i-th uploaded file, none dropped or duplicated; the   *)
(* join of no documents is the empty string; for two documents with        *)
(* different texts that contain no newline, the corpora of [A,B] and       *)
(* [B,A] differ.                                                           *)
(***************************************************************************)
C4_UploadOrderPreserved ==
    /\ Corpus(<<>>) = ""
    /\ Aggregated
        => LET corpus == combined_text[1]
           IN /\ Len(processed_files) = Len(uploaded_files)
              /\ \A i \in 1..Len(uploaded_files) :
                    /\ Docs[i] = extract_text(uploaded_files[i])
                    /\ SubSeq(corpus, Offset(i) + 1, Offset(i) + Len(Docs[i])) = Docs[i]
              /\ Len(corpus) = Offset(Len(Docs)) + Len(Docs[Len(Docs)])
              /\ (Len(Docs) = 2 /\ Docs[1] # Docs[2]
                      /\ ~HasNewline(Docs[1]) /\ ~HasNewline(Docs[2]))
                    => corpus # Corpus(Reverse(processed_files))

C4_Witness ==
    /\ Aggregated
    /\ Len(uploaded_files) = 2
    /\ Docs = <<"hello world", "Error processing file: bad file">>
    /\ combined_text[1] # Corpus(Reverse(processed_files))

(***************************************************************************)
(* C5 as stated: whenever the corpus is empty or whitespace only, the      *)
(* result is the fixed "no content" text and the LLM client is not called. *)
(***************************************************************************)
C5_BlankCorpusAlwaysNoContent ==
    (pc = "done" /\ Aggregated /\ Blank(combined_text[1]))
        => /\ response = Some("No content to process")
           /\ requests = <<>>

(***************************************************************************)
(* C5 amended: whenever the corpus is empty or whitespace only, the LLM    *)
(* client is not called; with task Summarize or AnswerQuestion the result  *)
(* is the fixed "No content to process" text, with task Combine it is the  *)
(* corpus itself; an empty file list ends the run with no task chosen, no  *)
(* result and no call.                                                     *)
(***************************************************************************)
C5_BlankCorpusSkipsLLM ==
    pc = "done"
        => /\ (Aggregated /\ Blank(combined_text[1]))
                 => /\ requests = <<>>
                    /\ upstream = None
                    /\ ~raised
                    /\ task \in {Some("Summarize"), Some("Ask Questions")}
                          => response = Some("No content to process")
                    /\ task = Some("Combine") => response = combined_text
           /\ uploaded_files = <<>>
                 => /\ ~Aggregated
                    /\ task = None
                    /\ response = None
                    /\ requests = <<>>

C5_Witness ==
    /\ pc = "done"
    /\ task = Some("Summarize")
    /\ combined_text = Some("\n\n\n\n\n\n")
    /\ response = Some("No content to process")
    /\ requests = <<>>

(***************************************************************************)
(* C6: no exception leaves process_document; when the LLM client raises or *)
(* returns no choice, the value returned is an error text that contains    *)
(* the failure's description.                                              *)
(***************************************************************************)
C6_NeverRaises ==
    /\ ~raised
    /\ pc = "done"
        => /\ response # None
           /\ (upstream # None /\ upstream[1].kind # "reply")
                 => /\ StartsWith(response[1], "Error processing request: ")
                    /\ Contains(response[1], upstream[1].text)
                    /\ Len(requests) = 1

C6_Witness ==
    /\ pc = "done"
    /\ upstream # None
    /\ upstream[1].kind = "nochoices"
    /\ response = Some("Error processing request: list index out of range")

(***************************************************************************)
(* C7: a file whose parsing raises contributes one document whose text     *)
(* carries the failure message; every other file of the batch gets the     *)
(* text it would get alone; the batch is processed to the end.             *)
(***************************************************************************)
C7_FailuresIsolated ==
    /\ ~raised
    /\ Len(processed_files) <= Len(uploaded_files)
    /\ pc \in {"task", "summarize", "ask"} => Len(processed_files) = Len(uploaded_files)
    /\ Aggregated => Len(processed_files) = Len(uploaded_files)
    /\ \A i \in 1..Len(processed_files) :
          LET file == uploaded_files[i]
              text == processed_files[i].content
          IN /\ Failed(file)
                   => /\ text # ""
                      /\ Contains(text, file.parse.text)
                      /\ StartsWith(text, "Error processing file: ")
             /\ ~Failed(file)
                   => text = IF file.type \in RecognizedTypes
                             THEN file.parse.text
                             ELSE "Unsupported file format"

C7_Witness ==
    /\ pc = "task"
    /\ Len(uploaded_files) = 2
    /\ Failed(uploaded_files[1])
    /\ ~Failed(uploaded_files[2])
    /\ Docs = <<"Error processing file: bad file", "hello world">>

(***************************************************************************)
(* C8: a file whose media type is not a recognized one is extracted as the *)
(* fixed marker "Unsupported file format"; with Summarize the LLM client   *)
(* is called once and the prompt contains the marker.                      *)
(***************************************************************************)
C8_UnsupportedMarker ==
    /\ \A i \in 1..Len(processed_files) :
          uploaded_files[i].type \notin RecognizedTypes
              => processed_files[i].content = "Unsupported file format"
    /\ (pc = "done" /\ task = Some("Summarize") /\ HasUnsupported)
          => /\ ~raised
             /\ Len(requests) = 1
             /\ Contains(requests[1].messages[1].content, "Unsupported file format")

C8_Witness ==
    /\ pc = "done"
    /\ task = Some("Summarize")
    /\ Len(uploaded_files) = 1
    /\ uploaded_files[1].type = HTML
    /\ Len(requests) = 1
    /\ response = Some("LLM reply")

(***************************************************************************)
(* C9: the prompt is the task's fixed template around the corpus, sent as  *)
(* one user-role message: "Summarize the following content                 *)
(* concisely:\n\n" + corpus for Summarize, and "Answer based on the        *)
(* content provided:\n\nContent:\n" + corpus + "\n\nQuestion: " + Q for     *)
(* AnswerQuestion with a non-empty question Q.                             *)
(***************************************************************************)
C9_PromptTemplates ==
    (pc = "done" /\ requests # <<>>)
        => LET corpus == combined_text[1]
               sent == requests[1].messages
           IN /\ Len(requests) = 1
              /\ Len(sent) = 1
              /\ sent[1].role = "user"
              /\ task = Some("Summarize")
                    => sent[1].content =
                          "Summarize the following content concisely:\n\n" \o corpus
              /\ (task = Some("Ask Questions") /\ question # None /\ question[1] # "")
                    => /\ sent[1].content =
                             "Answer based on the content provided:\n\nContent:\n"
                                 \o corpus \o "\n\nQuestion: " \o question[1]
                       /\ Contains(sent[1].content, corpus)
                       /\ Contains(sent[1].content, "Question: " \o question[1])

C9_Witness ==
    /\ pc = "done"
    /\ task = Some("Ask Questions")
    /\ question = Some("Q?")
    /\ combined_text = Some("hello world")
    /\ Len(requests) = 1

(***************************************************************************)
(* C10: a task value outside summarize / ask_question / combine with a     *)
(* non-blank content is a fault: process_document raises, sends no prompt  *)
(* for it and returns no LLM reply as its result.                          *)
(***************************************************************************)
C10_UnknownTaskFaults ==
    (pc = "done" /\ task \notin {Some("summarize"), Some("ask_question"), Some("combine")}
        /\ ~Blank(combined_text[1]))
        => /\ raised
           /\ requests = <<>>

====
